---- MODULE Spec2Model ----
(***************************************************************************)
(* Model of the metadata manager (src/src/metadata_manager): one manager   *)
(* per resource kind, each with read_metadata (list) and apply_metadata    *)
(* (reconcile the remote environment against a manifest), driven by main.  *)
(* One behaviour is a sequence of invocations of main for one kind against *)
(* one remote environment.  Every HTTP request is one step: the remote     *)
(* answers with a status and a body, and the handler's reaction to that    *)
(* answer is part of the same step.                                        *)
(***************************************************************************)
EXTENDS Integers, Sequences, FiniteSets, TLC

\* ------------------------------------------------------------------ bounds

\* Number of successive invocations of main in one behaviour.
MaxRuns == 2
\* Number of answers, in one behaviour, that differ from the answer a
\* healthy server gives (HonestStatus with the real page as body).
MaxFaults == 1

\* The paginated listers advance the offset by 100 and the remote serves
\* pages of 100; the model keeps the two equal and scales them down.
PAGE_SIZE == 2

\* ------------------------------------------------------------- vocabulary

ALLOWED_OPERATIONS == {"list", "apply"}
ALLOWED_METADATA_TYPES == {"pools", "connections", "dags", "roles", "variables"}

Ids == {"airflow_db", "m1", "m2"}
Null == "null"
NoId == "-"
NoOffset == 0 - 1
NoPayload == [none |-> Null]
\* Python's None as an environment name.
NoEnv == "None"

\* Statuses the remote may answer with: 200, another 2xx (204, the success
\* status of DELETE), a 3xx, 404 and a 5xx.
Statuses == {200, 204, 304, 404, 500}
Is2xx(s) == s >= 200 /\ s < 300

\* requests.Response.raise_for_status raises HTTPError for 4xx and 5xx only.
RaiseForStatus(s) == s >= 400 /\ s < 600

\* ---------------------------------------------------- per-kind policy

\* (A variant in which every kind lists and deletes.)
DeletingKindAll(k) == TRUE
\* Kinds whose apply_metadata lists the remote and deletes the extras.
DeletingKind(k) == k \in {"connections", "pools"}
\* (A variant that protects nothing.)
ProtectedSetNone(k) == {}
\* Identifiers apply_metadata subtracts from the delete set.
ProtectedSet(k) == IF k = "connections" THEN {"airflow_db"} ELSE {}
\* Kinds whose apply_metadata answers a 404 on PATCH with a POST.
CreatingKind(k) == k \in {"connections", "pools"}
\* Kinds whose read_metadata loops over the offset.
PaginatedKind(k) == k \in {"connections", "variables", "dags"}

\* Attribute bags a manifest may hold for an identifier, per kind.
Attrs(k) ==
  CASE k = "connections" -> {[host |-> "x", port |-> Null], [host |-> "y"]}
    [] k = "pools"       -> {[slots |-> "1"], [slots |-> "2"]}
    [] k = "variables"   -> {"v1", "v2"}
    [] k = "roles"       -> {[actions |-> "r"], [actions |-> "rw"]}
    [] k = "dags"        -> {[is_paused |-> TRUE], [is_paused |-> FALSE]}

Manifests(k) == UNION {[K -> Attrs(k)] : K \in SUBSET Ids}

\* What the remote holds for an identifier nobody applied yet.
RemoteDefault(k) ==
  CASE k = "connections" -> [host |-> "old"]
    [] k = "pools"       -> [slots |-> "0"]
    [] k = "variables"   -> [key |-> "old", value |-> "old"]
    [] k = "roles"       -> [actions |-> "old"]
    [] k = "dags"        -> [is_paused |-> FALSE, owners |-> <<"airflow">>,
                             tags |-> <<>>]

\* A tag is the sequence of the pieces of its text, cut so that the text
\* "env_" is the piece "env" followed by the piece "_".
TAG_LATEST_CRITICAL_PATH == <<"latest_pipeline:critical_path">>
TAG_BATCH_CRITICAL_PATH == <<"batch_pipeline:critical_path">>
TAGS_CRITICAL_PATH == {TAG_LATEST_CRITICAL_PATH, TAG_BATCH_CRITICAL_PATH}

\* What the remote may hold for a workflow: its pause state, its owners
\* and its tags in API order.
DagRecords ==
  { [is_paused |-> FALSE, owners |-> <<"airflow">>,
     tags |-> <<TAG_LATEST_CRITICAL_PATH, <<"env", "_", "prod">>, <<"env", "_", "dev">>>>],
    [is_paused |-> TRUE, owners |-> <<" alice ", "airflow">>,
     tags |-> <<<<"env", "_", "prod">>>>],
    [is_paused |-> FALSE, owners |-> <<"bob">>,
     tags |-> <<<<"team", "_", "env", "_", "x">>, <<"nightly">>>>],
    [is_paused |-> FALSE, owners |-> <<>>, tags |-> <<>>] }

\* Sequences over S without repetition: the remote collection in API order.
RECURSIVE Perms(_)
Perms(S) ==
  IF S = {} THEN {<<>>}
  ELSE UNION {{<<x>> \o p : p \in Perms(S \ {x})} : x \in S}
Listings == UNION {Perms(S) : S \in SUBSET Ids}

Range(s) == {s[i] : i \in 1..Len(s)}
Min(a, b) == IF a < b THEN a ELSE b

\* str.strip over the owner names in use.
Strip(o) == IF o = " alice " THEN "alice" ELSE o

\* re.search(r"env_.*", tag): the text "env_" occurs somewhere in the tag.
SearchEnv(tag) ==
  \E i \in 1..(Len(tag) - 1) : tag[i] = "env" /\ tag[i + 1] = "_"

\* ",".join(tags), as the sequence of the pieces of the joined text.
RECURSIVE Join(_)
Join(tags) ==
  IF tags = <<>> THEN <<>>
  ELSE IF Len(tags) = 1 THEN tags[1]
  ELSE tags[1] \o <<",">> \o Join(Tail(tags))

\* What DagManager.read_metadata keeps of a listed workflow.
DagResult(dag) ==
  LET owners == SelectSeq([i \in DOMAIN dag.owners |-> Strip(dag.owners[i])],
                          LAMBDA o : o # "airflow")
      target_environments == Join(SelectSeq(dag.tags, SearchEnv))
  IN [owners |-> IF owners # <<>> THEN owners ELSE <<"data-infra">>,
      is_critical_path |-> \E i \in DOMAIN dag.tags : dag.tags[i] \in TAGS_CRITICAL_PATH,
      is_paused |-> dag.is_paused,
      target_environments |-> IF target_environments = <<>>
                              THEN <<"env", "_", "all">>
                              ELSE target_environments]

\* dict.update: b's fields over a's.
Update(a, b) ==
  [f \in DOMAIN a \cup DOMAIN b |-> IF f \in DOMAIN b THEN b[f] ELSE a[f]]

CUSTOM_METADATA_FIELDS == {"max_task_duration_minutes", "max_dag_duration_minutes"}

\* What the file behind --dag-manifest may hold: per workflow, custom fields
\* and other fields, for workflows the remote may or may not list.
DagFiles ==
  { <<>>,
    [m1 |-> [max_task_duration_minutes |-> 10, owners |-> <<"eve">>,
             is_paused |-> TRUE],
     m2 |-> [is_critical_path |-> TRUE],
     airflow_db |-> [max_task_duration_minutes |-> 30,
                     max_dag_duration_minutes |-> 60,
                     target_environments |-> <<"env", "_", "qa">>]] }

\* (A variant that keeps every field of the file.)
LocalMetadataExtractAllFields(file) == file
\* DagManager.local_metadata_extract_custom_fields: the custom fields of
\* every workflow of the file, workflows without any left out.
LocalMetadataExtractCustomFields(file) ==
  LET data == [k \in DOMAIN file |->
                 [f \in DOMAIN file[k] \cap CUSTOM_METADATA_FIELDS |-> file[k][f]]]
  IN [k \in {j \in DOMAIN data : DOMAIN data[j] # {}} |-> data[k]]

\* DagManager.update_remote_metadata: the fields of custom_fields over those
\* of metadata, for the workflows metadata holds.
UpdateRemoteMetadata(metadata, custom_fields) ==
  [k \in DOMAIN metadata |->
     IF k \in DOMAIN custom_fields
     THEN Update(metadata[k], custom_fields[k])
     ELSE metadata[k]]

\* ------------------------------------------------------------------ state

VARIABLES
  kind,        \* args.metadata_type: the manager main builds
  command,     \* args.command
  supply,      \* how apply is told what to apply: --path or --metadata_type
  environment_name,  \* main's environment_name (NoEnv: None)
  secrets,     \* secret manager accesses of this invocation
  pause_all,   \* ApiManager.pause_all
  dag_manifest,          \* ApiManager.dag_manifest is set (--dag-manifest)
  dag_file,              \* what the file behind --dag-manifest holds
  fail_on_import_error,  \* DagManager.read_metadata's keyword argument
  import_errors,         \* total_entries of the remote's importErrors
  remote,      \* the remote collection of this kind: identifiers in API order
  store,       \* the remote attributes of every identifier (Absent if none)
  manifest,    \* the manifest mapping as the running invocation holds it
  manifest0,   \* the manifest as the file or the secret holds it
  pc,          \* where the running invocation stands
  outcome,     \* how the invocation ended ("-" while it runs)
  offset,      \* read_metadata: the offset of the next page request
  names,       \* read_metadata: the identifiers collected so far
  results,     \* DagManager.read_metadata: what it keeps of every workflow
  polled,      \* apply_metadata: what read_metadata returned
  to_delete,   \* apply_metadata: delete-set identifiers not yet deleted
  todo,        \* apply_metadata: manifest identifiers not yet upserted
  cur,         \* the identifier whose PATCH was just answered with 404
  payload,     \* the payload of that PATCH
  calls,       \* the requests this invocation issued, with their answers
  faults,      \* answers so far that a healthy server would not give
  runs,        \* invocations started so far
  remote0,     \* the identifiers the remote held when this invocation started
  store0,      \* the remote attributes when this invocation started
  first        \* end of the previous invocation: its outcome and remote state

\* What an invocation is given: no action changes it.
inputs == <<kind, command, supply, pause_all, dag_manifest, dag_file,
            fail_on_import_error, import_errors, manifest0>>

vars == <<kind, command, supply, secrets, pause_all, dag_manifest, dag_file,
          fail_on_import_error,
          import_errors, remote, store, manifest, manifest0, pc,
          outcome, offset, names, polled, to_delete, todo, cur, payload,
          calls, faults, runs, remote0, store0, first, environment_name, results>>

Absent == NoPayload
NoFirst == [outcome |-> "-", remote |-> {}, store |-> [i \in Ids |-> Absent]]

\* A request and its answer: items is the item array of a page answer.
Call(m, id, off, p, s, items) ==
  [method |-> m, id |-> id, offset |-> off, payload |-> p, status |-> s,
   items |-> items]

\* ----------------------------------------------------------- the remote API

Present(id) == id \in Range(remote)

\* The page the remote serves at an offset: PAGE_SIZE identifiers at most.
Page(off) == SubSeq(remote, off + 1, Min(off + PAGE_SIZE, Len(remote)))

\* PATCH creates a missing variable (variables.py, pools.py comments); for
\* every other kind it answers 404.
PatchCreates(k) == k = "variables"

Feasible(m, id) ==
  CASE m = "DELETE" -> Present(id)
    [] m = "PATCH"  -> Present(id) \/ PatchCreates(kind)
    [] m = "POST"   -> ~Present(id)
    [] OTHER        -> TRUE

\* The status a healthy server answers with.
HonestStatus(m, id) ==
  CASE m = "DELETE" -> IF Present(id) THEN 204 ELSE 404
    [] m = "PATCH"  -> IF Feasible(m, id) THEN 200 ELSE 404
    [] m = "POST"   -> IF Feasible(m, id) THEN 200 ELSE 409
    [] OTHER        -> 200

\* The statuses the remote may answer a write with: a 2xx says the write
\* was done, a 404 says the identifier is missing, and anything but the
\* healthy answer counts as a fault.
Answers(m, id) ==
  {s \in Statuses \cup {HonestStatus(m, id)} :
     /\ Is2xx(s) => Feasible(m, id)
     /\ s = 404 => ~Present(id)
     /\ s # HonestStatus(m, id) => faults < MaxFaults}

IsFault(m, id, s) == IF s # HonestStatus(m, id) THEN 1 ELSE 0

\* The remote after a write answered with status s.
RemoteAfter(m, id, s) ==
  IF ~Is2xx(s) THEN remote
  ELSE IF m = "DELETE" THEN SelectSeq(remote, LAMBDA x : x # id)
  ELSE IF Present(id) THEN remote
  ELSE Append(remote, id)

StoreAfter(m, id, p, s) ==
  IF ~Is2xx(s) THEN store
  ELSE IF m = "DELETE" THEN [store EXCEPT ![id] = Absent]
  ELSE IF m = "PATCH" /\ Present(id) THEN [store EXCEPT ![id] = Update(store[id], p)]
  ELSE [store EXCEPT ![id] = p]

\* The answers to a page request: a healthy server answers 200 with the
\* page; a fault is a 3xx or a 5xx, with the page, an empty item array or
\* a body without the item array.
PageFaults == IF faults < MaxFaults THEN {304, 500} ELSE {}
PageAnswers(off) ==
  {[status |-> 200, has_items |-> TRUE, items |-> Page(off)]}
  \cup {[status |-> s, has_items |-> TRUE, items |-> b] :
          s \in PageFaults, b \in {Page(off), <<>>}}
  \cup {[status |-> s, has_items |-> FALSE, items |-> <<>>] : s \in PageFaults}

PageFault(r) == IF r.status # 200 THEN 1 ELSE 0

\* ------------------------------------------------------------------- Init

Init ==
  /\ kind \in ALLOWED_METADATA_TYPES
  /\ command \in ALLOWED_OPERATIONS
  /\ supply \in IF command = "apply" THEN {"path", "type"} ELSE {"type"}
  /\ environment_name = NoEnv
  /\ secrets = 0
  /\ pause_all \in IF kind = "dags" /\ command = "apply" THEN BOOLEAN ELSE {FALSE}
  /\ dag_manifest \in IF kind = "dags" /\ command = "list" THEN BOOLEAN ELSE {FALSE}
  /\ dag_file \in IF dag_manifest THEN DagFiles ELSE {<<>>}
  /\ fail_on_import_error \in IF kind = "dags" /\ command = "list" THEN BOOLEAN ELSE {TRUE}
  /\ import_errors \in IF kind = "dags" /\ command = "list" THEN {0, 1} ELSE {0}
  /\ remote \in Listings
  /\ store \in IF kind = "dags" /\ command = "list"
                THEN {f \in [Ids -> DagRecords \cup {Absent}] :
                        \A i \in Ids : f[i] = Absent <=> i \notin Range(remote)}
                ELSE {[i \in Ids |-> IF i \in Range(remote)
                                     THEN RemoteDefault(kind) ELSE Absent]}
  /\ results = <<>>
  /\ manifest0 \in IF command = "apply" /\ (supply = "path" \/ kind = "connections")
                    THEN Manifests(kind) ELSE {<<>>}
  /\ manifest = manifest0
  /\ pc = "args"
  /\ outcome = "-"
  /\ offset = 0
  /\ names = <<>>
  /\ polled = <<>>
  /\ to_delete = {}
  /\ todo = {}
  /\ cur = NoId
  /\ payload = NoPayload
  /\ calls = <<>>
  /\ faults = 0
  /\ runs = 1
  /\ remote0 = Range(remote)
  /\ store0 = store
  /\ first = NoFirst

\* ------------------------------------------------------- ends of a handler

\* The ways an invocation ends: main returns 0 ("ok"), main catches
\* NotImplementedError and returns 1 ("unsupported"), sys.exit(1) or exit(1)
\* is called ("exit"), or an exception nobody catches ends the interpreter.
Outcomes == {"ok", "unsupported", "exit", "HTTPError", "KeyError",
             "AttributeError", "NotFound"}
\* The exception was not caught: the interpreter prints a traceback.
Crashed(o) == o \in {"HTTPError", "KeyError", "AttributeError", "NotFound"}
\* The exit status of the process.
ExitCode(o) == IF o = "ok" THEN 0 ELSE 1
\* What an ended invocation shows: its exit status, whether it died on a
\* traceback, and whether "Command unsupported for the specified metadata
\* type." was logged.
Report(o) ==
  [code |-> ExitCode(o), traceback |-> Crashed(o), unsupported |-> o = "unsupported"]

\* The invocation ends.
Finish(o) ==
  /\ pc' = "done"
  /\ outcome' = o

\* (A variant that runs the upsert loop before the delete loop.)
LoopPcUpsertFirst(del, ups) ==
  IF ups # {} THEN "upsert" ELSE IF del # {} THEN "delete" ELSE "done"
\* Where apply_metadata stands with these identifiers left: the delete loop
\* comes first, then the upsert loop.
LoopPc(del, ups) ==
  IF del # {} THEN "delete" ELSE IF ups # {} THEN "upsert" ELSE "done"
LoopOutcome(del, ups) ==
  IF del = {} /\ ups = {} THEN "ok" ELSE "-"

\* (A variant that does not subtract the manifest's identifiers.)
DeleteSetListed(k, listing, man) == Range(listing) \ ProtectedSet(k)
\* (A variant that deletes everything the listing holds.)
DeleteSetEverything(k, listing, man) == Range(listing)
\* The delete set apply_metadata computes from the listing and the manifest.
DeleteSet(k, listing, man) ==
  (Range(listing) \ DOMAIN man) \ ProtectedSet(k)

\* main hands apply_metadata data = None when there is no --path.
DataIsNone == supply = "type"

\* The secret manager holds the connections manifest of an environment under
\* "<environment name>-connections": there is none for the name None.
SecretExists(env) == env # NoEnv

\* read_metadata returned result: main's list is over; apply_metadata
\* fetches the connections manifest from the secret manager if the kind is
\* connections, computes the delete set and enters its loops.
Returned(result) ==
  IF command = "list"
  THEN /\ Finish(IF kind = "dags" /\ ~dag_manifest THEN "exit" ELSE "ok")
       /\ polled' = IF kind = "dags" /\ ~dag_manifest THEN polled ELSE result
       /\ UNCHANGED <<to_delete, todo, secrets>>
  ELSE /\ polled' = result
       /\ secrets' = IF kind = "connections" THEN secrets + 1 ELSE secrets
       /\ IF kind = "connections" /\ ~SecretExists(environment_name)
          THEN Finish("NotFound") /\ UNCHANGED <<to_delete, todo>>
          ELSE IF kind # "connections" /\ DataIsNone
          THEN Finish("AttributeError") /\ UNCHANGED <<to_delete, todo>>
          ELSE /\ to_delete' = DeleteSet(kind, result, manifest)
               /\ todo' = DOMAIN manifest
               /\ pc' = LoopPc(to_delete', todo')
               /\ outcome' = LoopOutcome(to_delete', todo')

\* --------------------------------------------------------------- actions

\* The environment name the command line may carry, and what the manifest
\* file may hold under "environment_name".
CliEnvs(c) == IF c = "list" THEN {"env"} ELSE {NoEnv, "env"}
FileEnvs == {"missing", NoEnv, "env"}

\* main up to the try block: with --path, parse_configuration takes the
\* environment name from the command line, else from the file, and exits
\* when it is None; without --path the command line's value is taken as it
\* is (both attributes exist on args whatever was typed).
ParseConfiguration ==
  /\ pc = "args"
  /\ \E cli \in CliEnvs(command) : \E file \in FileEnvs :
       IF supply = "path"
       THEN IF cli = NoEnv /\ file = "missing"
            THEN Finish("KeyError") /\ UNCHANGED environment_name
            ELSE /\ environment_name' = IF cli = NoEnv THEN file ELSE cli
                 /\ IF environment_name' = NoEnv
                    THEN Finish("exit")
                    ELSE pc' = "main" /\ UNCHANGED outcome
       ELSE /\ environment_name' = cli
            /\ pc' = "main"
            /\ UNCHANGED outcome
  /\ UNCHANGED <<results, inputs, secrets, remote, store, manifest, offset, names, polled,
                 to_delete, todo, cur, payload, calls, faults, runs, remote0,
                 store0, first>>

\* (A variant in which every kind implements every command.)
UnsupportedNever(k, c) == FALSE
\* RoleManager.read_metadata raises NotImplementedError.
Unsupported(k, c) == k = "roles" /\ c = "list"

\* main: build the manager, which fetches the API password from the secret
\* manager, and call read_metadata or apply_metadata, up to the first request.
Dispatch ==
  /\ pc = "main"
  /\ secrets' = secrets + 1
  /\ IF Unsupported(kind, command)
     THEN Finish("unsupported") /\ UNCHANGED todo
     ELSE IF command = "list" \/ DeletingKind(kind)
     THEN /\ pc' = CASE kind = "dags" -> "importErrors"
                      [] kind = "pools" -> "pools"
                      [] OTHER -> "page"
          /\ UNCHANGED <<outcome, todo>>
     ELSE IF DataIsNone
     THEN Finish("AttributeError") /\ UNCHANGED todo
     ELSE /\ todo' = DOMAIN manifest
          /\ pc' = LoopPc({}, todo')
          /\ outcome' = LoopOutcome({}, todo')
  /\ UNCHANGED <<results, inputs, remote, store, manifest,
                 offset, names, polled, to_delete, cur, payload, calls,
                 faults, runs, remote0, store0, first, environment_name>>

\* The answers to the importErrors request: a healthy server answers 200
\* with the count; a fault is a 3xx or a 5xx, with or without the count.
ImportErrorAnswers ==
  {[status |-> 200, has_total |-> TRUE]}
  \cup {[status |-> s, has_total |-> h] : s \in PageFaults, h \in BOOLEAN}

\* (A variant that aborts on import errors whatever the flag says.)
ImportGateAnyFlag(n, fail) == n # 0
\* import_errors != 0 and fail_on_import_error
ImportGate(n, fail) == n # 0 /\ fail

\* DagManager.read_metadata before its loop: request importErrors and exit
\* when there are import errors, unless told not to.
ReadImportErrors ==
  /\ pc = "importErrors"
  /\ \E r \in ImportErrorAnswers :
       /\ calls' = Append(calls, Call("GET", "importErrors", NoOffset, NoPayload,
                                     r.status, <<>>))
       /\ faults' = faults + PageFault(r)
       /\ IF ~r.has_total
          THEN Finish("KeyError")
          ELSE IF ImportGate(import_errors, fail_on_import_error)
          THEN Finish("exit")
          ELSE pc' = "page" /\ UNCHANGED outcome
  /\ UNCHANGED <<results, inputs, secrets, remote, store, manifest, offset, names, polled,
                 to_delete, todo, cur, payload, runs, remote0, store0, first, environment_name>>

\* (A variant that never advances.)
NextOffsetStuck(off) == off
\* (A variant that advances by one identifier instead of one page.)
NextOffsetByOne(off) == off + 1
\* offset += 100
NextOffset(off) == off + PAGE_SIZE

\* One turn of the while loop of ConnectionManager, VariableManager and
\* DagManager.read_metadata: request the page at offset, then break, raise
\* or collect.  After its loop DagManager.read_metadata overlays the custom
\* fields of the local file on what it collected.
ReadPage ==
  /\ pc = "page"
  /\ \E r \in PageAnswers(offset) :
       /\ calls' = Append(calls, Call("GET", NoId, offset, NoPayload, r.status, r.items))
       /\ faults' = faults + PageFault(r)
       /\ results' =
            IF kind = "dags" /\ r.has_items /\ r.items = <<>> /\ dag_manifest
            THEN UpdateRemoteMetadata(results,
                                      LocalMetadataExtractCustomFields(dag_file))
            ELSE IF kind = "dags" /\ r.has_items /\ r.status = 200
            THEN Update(results, [i \in Range(r.items) |-> DagResult(store[i])])
            ELSE results
       /\ IF ~r.has_items
          THEN /\ Finish("KeyError")
               /\ UNCHANGED <<offset, names, polled, to_delete, todo, secrets>>
          ELSE IF r.items = <<>>
          THEN /\ Returned(names)
               /\ UNCHANGED <<offset, names>>
          ELSE IF r.status # 200
          THEN IF RaiseForStatus(r.status)
               THEN /\ Finish("HTTPError")
                    /\ UNCHANGED <<offset, names, polled, to_delete, todo, secrets>>
               ELSE /\ offset' = NextOffset(offset)
                    /\ UNCHANGED <<pc, outcome, names, polled, to_delete, todo, secrets>>
          ELSE /\ names' = names \o r.items
               /\ offset' = NextOffset(offset)
               /\ UNCHANGED <<pc, outcome, polled, to_delete, todo, secrets>>
  /\ UNCHANGED <<inputs, remote, store, manifest,
                 cur, payload, runs, remote0, store0, first, environment_name>>

\* PoolManager.read_metadata: one request without offset, no status check.
ReadPools ==
  /\ pc = "pools"
  /\ \E r \in PageAnswers(0) :
       /\ calls' = Append(calls, Call("GET", NoId, NoOffset, NoPayload, r.status, r.items))
       /\ faults' = faults + PageFault(r)
       /\ IF ~r.has_items
          THEN /\ Finish("KeyError")
               /\ UNCHANGED <<names, polled, to_delete, todo, secrets>>
          ELSE /\ names' = r.items
               /\ Returned(names')
  /\ UNCHANGED <<results, inputs, remote, store, manifest,
                 offset, cur, payload, runs, remote0, store0, first, environment_name>>

\* ApiManager.delete_metadata for one identifier of the delete set.
Delete ==
  /\ pc = "delete"
  /\ \E id \in to_delete : \E s \in Answers("DELETE", id) :
       /\ calls' = Append(calls, Call("DELETE", id, NoOffset, NoPayload, s, <<>>))
       /\ faults' = faults + IsFault("DELETE", id, s)
       /\ remote' = RemoteAfter("DELETE", id, s)
       /\ store' = StoreAfter("DELETE", id, NoPayload, s)
       /\ IF s # 204 /\ RaiseForStatus(s)
          THEN /\ Finish("HTTPError")
               /\ UNCHANGED to_delete
          ELSE /\ to_delete' = to_delete \ {id}
               /\ pc' = LoopPc(to_delete', todo)
               /\ outcome' = LoopOutcome(to_delete', todo)
  /\ UNCHANGED <<results, inputs, secrets, manifest, offset, names,
                 polled, todo, cur, payload, runs, remote0, store0, first, environment_name>>

\* (A variant that strips nothing.)
DeleteKvKeepNull(d) == d
\* ConnectionManager.__delete_kv_if_value_null
DeleteKvIfValueNull(d) ==
  [f \in {g \in DOMAIN d : d[g] # Null} |-> d[f]]

\* (A variant that strips the null-valued attributes in place too.)
ShapedStripped(k, id, bag) ==
  CASE k = "connections" -> DeleteKvIfValueNull(Update(bag, [connection_id |-> id]))
    [] k = "pools"       -> Update(bag, [name |-> id])
    [] OTHER             -> bag
\* The attribute bag of the manifest after the loop body shaped the payload:
\* connections and pools update the bag in place.
Shaped(k, id, bag) ==
  CASE k = "connections" -> Update(bag, [connection_id |-> id])
    [] k = "pools"       -> Update(bag, [name |-> id])
    [] OTHER             -> bag

\* (A variant that ignores --pause-all.)
DagStateManifest(pa, bag) == bag.is_paused
\* dag_state: paused when pause_all is set, else as the manifest says.
DagState(pa, bag) == IF pa THEN TRUE ELSE bag.is_paused

\* The payload the loop body sends for a manifest entry.
Payload(k, id, bag) ==
  CASE k = "connections" -> DeleteKvIfValueNull(Shaped(k, id, bag))
    [] k = "pools"       -> Shaped(k, id, bag)
    [] k = "variables"   -> [key |-> id, value |-> bag]
    [] k = "roles"       -> [name |-> id, actions |-> bag.actions]
    [] k = "dags"        -> [is_paused |-> DagState(pause_all, bag)]

\* (A variant that takes the 404 branch for every kind.)
AfterPatchAnyKind(k, s) ==
  IF s = 404 THEN "create"
  ELSE IF s # 200 /\ RaiseForStatus(s) THEN "raise"
  ELSE "next"
\* What the loop body does with the status of its PATCH.
AfterPatch(k, s) ==
  IF CreatingKind(k) /\ s = 404 THEN "create"
  ELSE IF s # 200 /\ RaiseForStatus(s) THEN "raise"
  ELSE "next"

\* One turn of the upsert loop of apply_metadata: shape the payload, PATCH.
Patch ==
  /\ pc = "upsert"
  /\ \E id \in todo : \E s \in Answers("PATCH", id) :
       LET p == Payload(kind, id, manifest[id]) IN
       /\ manifest' = [manifest EXCEPT ![id] = Shaped(kind, id, manifest[id])]
       /\ calls' = Append(calls, Call("PATCH", id, NoOffset, p, s, <<>>))
       /\ faults' = faults + IsFault("PATCH", id, s)
       /\ remote' = RemoteAfter("PATCH", id, s)
       /\ store' = StoreAfter("PATCH", id, p, s)
       /\ todo' = todo \ {id}
       /\ CASE AfterPatch(kind, s) = "create" ->
                 /\ pc' = "create"
                 /\ cur' = id
                 /\ payload' = p
                 /\ UNCHANGED outcome
            [] AfterPatch(kind, s) = "raise" ->
                 /\ Finish("HTTPError")
                 /\ UNCHANGED <<cur, payload>>
            [] OTHER ->
                 /\ pc' = LoopPc(to_delete, todo')
                 /\ outcome' = LoopOutcome(to_delete, todo')
                 /\ UNCHANGED <<cur, payload>>
  /\ UNCHANGED <<results, inputs, secrets, offset, names, polled,
                 to_delete, runs, remote0, store0, first, environment_name>>

\* The 404 branch of the loop body of ConnectionManager and PoolManager:
\* POST the same payload to the collection.
Create ==
  /\ pc = "create"
  /\ \E s \in Answers("POST", cur) :
       /\ calls' = Append(calls, Call("POST", cur, NoOffset, payload, s, <<>>))
       /\ faults' = faults + IsFault("POST", cur, s)
       /\ remote' = RemoteAfter("POST", cur, s)
       /\ store' = StoreAfter("POST", cur, payload, s)
       /\ IF s # 200 /\ RaiseForStatus(s)
          THEN Finish("HTTPError")
          ELSE /\ pc' = LoopPc(to_delete, todo)
               /\ outcome' = LoopOutcome(to_delete, todo)
  /\ cur' = NoId
  /\ payload' = NoPayload
  /\ UNCHANGED <<results, inputs, secrets, manifest, offset, names,
                 polled, to_delete, todo, runs, remote0, store0, first, environment_name>>

\* main is invoked again after a successful apply, with the same command
\* line and the same manifest source, against the remote that apply left.  (An
\* invocation after a failed one is an invocation from another remote
\* state, which Init covers.)
Again ==
  /\ pc = "done"
  /\ command = "apply"
  /\ outcome = "ok"
  /\ runs < MaxRuns
  /\ runs' = runs + 1
  /\ remote0' = Range(remote)
  /\ store0' = store
  /\ first' = [outcome |-> outcome, remote |-> Range(remote), store |-> store]
  /\ manifest' = manifest0
  /\ pc' = "main"
  /\ outcome' = "-"
  /\ offset' = 0
  /\ names' = <<>>
  /\ polled' = <<>>
  /\ to_delete' = {}
  /\ todo' = {}
  /\ calls' = <<>>
  /\ secrets' = 0
  /\ UNCHANGED <<results, inputs, environment_name, remote, store, cur, payload,
                 faults>>

Next ==
  \/ ParseConfiguration
  \/ Dispatch
  \/ ReadImportErrors
  \/ ReadPage
  \/ ReadPools
  \/ Delete
  \/ Patch
  \/ Create
  \/ Again

Spec == Init /\ [][Next]_vars

\* ------------------------------------------------------- reading the log

CallIds(m) == {calls[i].id : i \in {j \in DOMAIN calls : calls[j].method = m}}
CountOf(m, id) ==
  Cardinality({i \in DOMAIN calls : calls[i].method = m /\ calls[i].id = id})
\* The page requests.
Gets == SelectSeq(calls, LAMBDA c : c.method = "GET" /\ c.id = NoId)
RECURSIVE Concat(_)
Concat(pages) ==
  IF pages = <<>> THEN <<>> ELSE Head(pages).items \o Concat(Tail(pages))

AppliedOk == pc = "done" /\ command = "apply" /\ outcome = "ok"
ListedOk == pc = "done" /\ command = "list" /\ outcome = "ok"
\* Every answer so far was the one a healthy server gives.
Healthy == faults = 0
\* read_metadata is over and returned a listing.
ReadReturned ==
  /\ Gets # <<>>
  /\ pc \notin {"main", "importErrors", "page", "pools"}
  /\ outcome \notin {"KeyError", "exit"}
  /\ ~(outcome = "HTTPError" /\ calls[Len(calls)].method = "GET")
\* The call at position i ended the invocation with an HTTP error.
Fatal(i) == i = Len(calls) /\ pc = "done" /\ outcome = "HTTPError"

\* ---------------------------------------------------------------- claims

\* C1: after an apply for a deleting kind (connections, pools) that completes
\* without error, the remote identifiers are keys(M) \cup P exactly: every
\* manifest identifier exists and every identifier outside keys(M) \cup P is
\* gone.  Stated for the runs in which every answer was the healthy one;
\* PoolManager violates it with a remote of more than one page.
C1_RemoteIsManifestAndProtected ==
  (AppliedOk /\ DeletingKind(kind) /\ Healthy) =>
     /\ DOMAIN manifest \subseteq Range(remote)
     /\ Range(remote) \subseteq DOMAIN manifest \cup ProtectedSet(kind)

\* C2: for every listable kind the lister returns all the identifiers the
\* remote holds, whatever the size of the collection.  Stated for the runs
\* in which every answer was the healthy one; PoolManager.read_metadata
\* returns the first page only.
C2_ListsAllIdentifiers ==
  (ListedOk /\ Healthy) => polled = remote

\* C3: the paginated lister requests the offsets 0, PAGE_SIZE, 2*PAGE_SIZE,
\* ... in that order, issues no request after an empty page, and, given
\* pages answered with 200, returns exactly the concatenation of the
\* non-empty pages in API order (the empty sequence when the first page is
\* empty, without error).
C3_PaginationDrains ==
  PaginatedKind(kind) =>
     /\ \A i \in DOMAIN Gets : Gets[i].offset = (i - 1) * PAGE_SIZE
     /\ \A i \in DOMAIN Gets : i < Len(Gets) => Gets[i].items # <<>>
     /\ (ReadReturned /\ \A i \in DOMAIN Gets : Gets[i].status = 200) =>
           /\ polled = Concat(Gets)
           /\ Gets[Len(Gets)].items = <<>>
           /\ \A i \in DOMAIN calls :
                 (calls[i].method = "GET" /\ calls[i].id = NoId)
                    => i <= Len(Gets) + (IF kind = "dags" THEN 1 ELSE 0)
           /\ (Len(Gets) = 1 /\ command = "list") => (polled = <<>> /\ outcome = "ok")

\* C3 witness: a listing of two non-empty pages, the second a short one,
\* and the empty page was returned.
C3_Witness ==
  /\ PaginatedKind(kind) /\ ListedOk
  /\ Len(Gets) = 3
  /\ \A i \in DOMAIN Gets : Gets[i].status = 200
  /\ Len(Gets[1].items) = PAGE_SIZE
  /\ Gets[2].items # <<>> /\ Len(Gets[2].items) < PAGE_SIZE
  /\ Len(polled) = PAGE_SIZE + Len(Gets[2].items)

\* C4: a page answered with a status that is not 2xx aborts the list (and
\* the apply that called it) in error, whatever item array the body holds:
\* no request follows it and no listing is returned.  (Any error outcome
\* counts as the abort here, the KeyError of a body without item array
\* included; stated for the listers that loop over the offset.)
C4_NonSuccessPageAborts ==
  PaginatedKind(kind) => \A i \in DOMAIN calls :
     (calls[i].method = "GET" /\ calls[i].id = NoId /\ ~Is2xx(calls[i].status))
        => (i = Len(calls) /\ pc = "done" /\ outcome \in {"HTTPError", "KeyError"})

\* C5: a connections apply never issues a DELETE for airflow_db.
C5_ProtectedNeverDeleted ==
  kind = "connections" => "airflow_db" \notin CallIds("DELETE")

\* C5 witness: airflow_db was listed, is not in the manifest, and the delete
\* loop ran to its end having deleted another identifier.
C5_Witness ==
  /\ kind = "connections" /\ AppliedOk
  /\ "airflow_db" \in Range(polled)
  /\ "airflow_db" \notin DOMAIN manifest
  /\ CallIds("DELETE") # {}

\* C6: the identifiers that receive a DELETE are listed, not in the
\* manifest and not protected, each at most once, and exactly those, each
\* once, when the delete loop ran to its end.
C6_DeleteSetExact ==
  LET want == (Range(polled) \ DOMAIN manifest) \ ProtectedSet(kind) IN
  DeletingKind(kind) =>
     /\ CallIds("DELETE") \subseteq want
     /\ \A id \in Ids : CountOf("DELETE", id) <= 1
     /\ (pc \in {"upsert", "create"} \/ AppliedOk) => CallIds("DELETE") = want

\* C6 witness: an apply whose listing held a manifest identifier, a
\* protected one and an extra one, delete loop over.
C6_Witness ==
  /\ DeletingKind(kind) /\ pc = "upsert"
  /\ ProtectedSet(kind) \cap Range(polled) # {}
  /\ DOMAIN manifest \cap Range(polled) # {}
  /\ CallIds("DELETE") # {}

\* C7: a second apply of the same manifest, after a first one that
\* succeeded, leaves the remote as the first left it and issues no POST and
\* no DELETE.  Stated for the runs in which every answer was the healthy one.
C7_SecondApplyChangesNothing ==
  (AppliedOk /\ CreatingKind(kind) /\ runs = 2 /\ first.outcome = "ok" /\ Healthy) =>
     /\ Range(remote) = first.remote
     /\ store = first.store
     /\ CallIds("POST") = {}
     /\ CallIds("DELETE") = {}

\* C8: for connections and pools a POST is issued for an identifier iff
\* the PATCH just issued for it was answered 404, with that PATCH's
\* payload; any other answer to the PATCH that is not 2xx, and any answer
\* to the POST that is not 2xx, ends the apply in error.
C8_PostIffPatch404 ==
  CreatingKind(kind) =>
     \A i \in DOMAIN calls :
        /\ calls[i].method = "POST" =>
              /\ i > 1
              /\ calls[i - 1].method = "PATCH"
              /\ calls[i - 1].status = 404
              /\ calls[i - 1].id = calls[i].id
              /\ calls[i - 1].payload = calls[i].payload
        /\ (calls[i].method = "PATCH" /\ calls[i].status = 404) =>
              IF i = Len(calls) THEN pc = "create" /\ cur = calls[i].id
              ELSE calls[i + 1].method = "POST"
        /\ (calls[i].method = "PATCH" /\ calls[i].status # 404 /\ ~Is2xx(calls[i].status))
              => Fatal(i)
        /\ (calls[i].method = "POST" /\ ~Is2xx(calls[i].status)) => Fatal(i)

\* C9: an apply for variables, roles or dags never issues a POST; a 404
\* answer to a PATCH ends it in error; a role the remote did not hold is
\* not created.
C9_NoCreateFallback ==
  (command = "apply" /\ kind \in {"variables", "roles", "dags"}) =>
     /\ CallIds("POST") = {}
     /\ \A i \in DOMAIN calls :
          (calls[i].method = "PATCH" /\ calls[i].status = 404) => Fatal(i)
     /\ kind = "roles" => Range(remote) = remote0

\* C9 witness: a roles apply whose PATCH of a missing role was answered 404.
C9_Witness ==
  /\ kind = "roles" /\ command = "apply"
  /\ calls # <<>>
  /\ calls[Len(calls)].method = "PATCH"
  /\ calls[Len(calls)].status = 404
  /\ calls[Len(calls)].id \notin remote0
  /\ todo # {}

\* C10: in the upsert loop of every kind, a PATCH or POST answered with a
\* status that is not 2xx, other than the 404 on PATCH that connections and
\* pools handle, ends the apply in error with no further request.
C10_FailFast ==
  \A i \in DOMAIN calls :
     ( /\ calls[i].method \in {"PATCH", "POST"}
       /\ ~Is2xx(calls[i].status)
       /\ ~(CreatingKind(kind) /\ calls[i].method = "PATCH" /\ calls[i].status = 404) )
     => Fatal(i)

\* C11: in the delete loop a DELETE answered with a status that is not 204
\* ends the apply in error: no further delete and no upsert follows it.
C11_DeleteNon204Fatal ==
  \A i \in DOMAIN calls :
     (calls[i].method = "DELETE" /\ calls[i].status # 204) => Fatal(i)

\* The phase of the apply a request belongs to.
Phase(c) ==
  CASE c.method = "GET" -> 1
    [] c.method = "DELETE" -> 2
    [] OTHER -> 3

\* C12: an apply for a deleting kind lists, then deletes, then upserts,
\* without retries: every listing request precedes every DELETE, every
\* DELETE precedes every PATCH and POST, no identifier is patched or posted
\* twice, only manifest identifiers are patched, and in a successful apply
\* every manifest identifier received exactly one PATCH.
C12_ListDeleteUpsertOrder ==
  (command = "apply" /\ kind \in {"connections", "pools"}) =>
     /\ \A i, j \in DOMAIN calls : i < j => Phase(calls[i]) <= Phase(calls[j])
     /\ \A id \in Ids :
          /\ CountOf("PATCH", id) <= 1
          /\ CountOf("POST", id) <= 1
          /\ CountOf("PATCH", id) = 1 => id \in DOMAIN manifest
     /\ AppliedOk => \A id \in DOMAIN manifest : CountOf("PATCH", id) = 1

\* C12 witness: a successful apply that listed, deleted, patched and posted.
C12_Witness ==
  /\ AppliedOk /\ kind \in {"connections", "pools"}
  /\ Gets # <<>>
  /\ CallIds("DELETE") # {}
  /\ CallIds("POST") # {}
  /\ Cardinality(CallIds("PATCH")) >= 2

\* C13: an apply for variables, roles or dags never issues a DELETE, and
\* every identifier the remote held that the manifest does not name is still
\* there with the attributes it had.
C13_NoDeleteForUpsertOnlyKinds ==
  (command = "apply" /\ kind \in {"variables", "roles", "dags"}) =>
     /\ CallIds("DELETE") = {}
     /\ \A id \in remote0 \ DOMAIN manifest :
          Present(id) /\ store[id] = store0[id]

\* C13 witness: such an apply completed, patched something, and the remote
\* held an identifier outside the manifest.
C13_Witness ==
  /\ AppliedOk /\ kind \in {"variables", "roles", "dags"}
  /\ CallIds("PATCH") # {}
  /\ remote0 \ DOMAIN manifest # {}

\* C14: a dags apply sends, for a manifest workflow, a PATCH whose payload
\* is exactly {is_paused: v}: v is true when pause_all is set, whatever the
\* manifest says, and the manifest's is_paused otherwise; a successful apply
\* has sent it for every manifest workflow.
C14_DagPayloadIsPauseState ==
  (command = "apply" /\ kind = "dags") =>
     /\ \A i \in DOMAIN calls :
          /\ calls[i].method = "PATCH"
          /\ calls[i].id \in DOMAIN manifest0
          /\ calls[i].payload =
               [is_paused |-> IF pause_all THEN TRUE
                              ELSE manifest0[calls[i].id].is_paused]
     /\ AppliedOk => CallIds("PATCH") = DOMAIN manifest0

\* C14 witness: with pause_all set, a workflow the manifest holds unpaused
\* was patched to paused, in an apply that completed.
C14_Witness ==
  /\ AppliedOk /\ kind = "dags" /\ pause_all
  /\ \E i \in DOMAIN calls :
       /\ manifest0[calls[i].id].is_paused = FALSE
       /\ calls[i].payload = [is_paused |-> TRUE]

\* C15: in a workflow read, when the import-error count is nonzero and
\* fail_on_import_error is set, the read aborts with an error and no request
\* to the dags listing is ever issued; when the count is zero or the flag is
\* off, the listing proceeds once the count was read.
C15_ImportErrorGate ==
  (command = "list" /\ kind = "dags") =>
     /\ (import_errors # 0 /\ fail_on_import_error) =>
          /\ Gets = <<>>
          /\ pc \in {"args", "main", "importErrors", "done"}
          /\ pc = "done" => outcome \in {"exit", "KeyError"}
     /\ ((import_errors = 0 \/ ~fail_on_import_error)
           /\ calls # <<>> /\ ~(Len(calls) = 1 /\ outcome = "KeyError")) =>
          (pc = "page" \/ Gets # <<>>)

\* C15 witness: the gate closed, after the importErrors request and nothing
\* else.
C15_Witness ==
  /\ command = "list" /\ kind = "dags"
  /\ import_errors # 0 /\ fail_on_import_error
  /\ pc = "done" /\ outcome = "exit"
  /\ Len(calls) = 1 /\ calls[1].id = "importErrors"
  /\ remote # <<>>

\* C16: no payload a connections apply sends, by PATCH or by POST, holds a
\* null-valued attribute: the payload is the manifest's attribute bag without
\* its null-valued attributes, every other attribute unchanged, plus
\* connection_id set to the identifier.
C16_NullStripped ==
  (command = "apply" /\ kind = "connections") =>
     \A i \in DOMAIN calls :
        calls[i].method \in {"PATCH", "POST"} =>
          LET p == calls[i].payload
              bag == manifest0[calls[i].id]
          IN /\ \A f \in DOMAIN p : p[f] # Null
             /\ DOMAIN p = {f \in DOMAIN bag : bag[f] # Null} \cup {"connection_id"}
             /\ p.connection_id = calls[i].id
             /\ \A f \in DOMAIN p \ {"connection_id"} : p[f] = bag[f]

\* C16 witness: the bag {host: x, port: null} went out as
\* {host: x, connection_id: id}, by PATCH and then by POST.
C16_Witness ==
  /\ command = "apply" /\ kind = "connections"
  /\ \E i, j \in DOMAIN calls :
       /\ calls[i].method = "PATCH" /\ calls[j].method = "POST"
       /\ calls[i].id = calls[j].id
       /\ manifest0[calls[i].id] = [host |-> "x", port |-> Null]
       /\ calls[i].payload = [host |-> "x", connection_id |-> calls[i].id]
       /\ calls[j].payload = calls[i].payload

\* C17 (as stated): apply leaves the manifest mapping, key set and attribute
\* bags, exactly as it was loaded.
C17_ManifestImmutable == manifest = manifest0

\* C17 (amended): apply leaves the key set of the manifest as loaded, and
\* every attribute bag as loaded but for one field: a connections apply has
\* set connection_id, and a pools apply name, to the identifier in the bag
\* of every identifier it sent a PATCH for.  Null-valued attributes stay in
\* the bag, and variables, roles and dags leave the manifest untouched.
C17_ManifestKeepsAllButIdField ==
  command = "apply" =>
     /\ DOMAIN manifest = DOMAIN manifest0
     /\ \A id \in DOMAIN manifest0 :
          manifest[id] =
            IF CountOf("PATCH", id) = 0 THEN manifest0[id]
            ELSE CASE kind = "connections" ->
                        Update(manifest0[id], [connection_id |-> id])
                   [] kind = "pools" -> Update(manifest0[id], [name |-> id])
                   [] OTHER -> manifest0[id]

\* C17 witness: a connections apply patched an identifier whose bag holds a
\* null port: the bag now holds connection_id, and the null port still.
C17_Witness ==
  /\ command = "apply" /\ kind = "connections"
  /\ \E id \in CallIds("PATCH") :
       /\ manifest0[id] = [host |-> "x", port |-> Null]
       /\ manifest[id] = [host |-> "x", port |-> Null, connection_id |-> id]

\* C18: in both supply modes, while the environment name is undetermined no
\* network call is made (no secret fetch, no request to the remote API), and
\* the invocation, once over, has failed on its configuration.
C18_ConfigErrorBeforeNetwork ==
  environment_name = NoEnv =>
     /\ secrets = 0
     /\ calls = <<>>
     /\ pc = "done" => outcome \in {"exit", "KeyError"}

IsEnvTag(tag) == Len(tag) >= 2 /\ tag[1] = "env" /\ tag[2] = "_"

\* C20: a workflow read derives, for every workflow it listed,
\* is_critical_path = true iff one of its tags is in TAGS_CRITICAL_PATH, and
\* target_environments = its env_* tags joined by commas in tag order, or
\* "env_all" when it has no env_* tag.
C20_DerivedFields ==
  (command = "list" /\ kind = "dags") =>
     \A id \in DOMAIN results :
        LET tags == store[id].tags
            envs == SelectSeq(tags, IsEnvTag)
        IN /\ results[id].is_critical_path
                <=> (\E i \in DOMAIN tags : tags[i] \in TAGS_CRITICAL_PATH)
           /\ results[id].target_environments =
                IF envs = <<>> THEN <<"env", "_", "all">> ELSE Join(envs)

\* The fields DagManager.read_metadata derives from the remote's answer.
RemoteDerived == {"owners", "is_critical_path", "is_paused", "target_environments"}

\* C21: a workflow read is a read-side enrichment only: it issues no PATCH,
\* POST or DELETE and leaves the remote as it was; its result has exactly
\* the workflows the listing pages returned (a workflow that only the local
\* file names is never added); the fields it holds beyond the remote-derived
\* ones are custom duration-limit fields with the local file's values; and
\* the remote-derived fields are what the remote's answer gives, whatever
\* the local file says.  A read that returned has overlaid every custom
\* field the file holds for a listed workflow.
C21_ReadSideEnrichment ==
  (command = "list" /\ kind = "dags") =>
     /\ \A i \in DOMAIN calls : calls[i].method = "GET"
     /\ store = store0
     /\ DOMAIN results = Range(names)
     /\ DOMAIN results \subseteq Range(remote)
     /\ \A id \in DOMAIN results :
          /\ RemoteDerived \subseteq DOMAIN results[id]
          /\ DOMAIN results[id] \subseteq RemoteDerived \cup CUSTOM_METADATA_FIELDS
          /\ \A f \in RemoteDerived : results[id][f] = DagResult(store[id])[f]
          /\ \A f \in DOMAIN results[id] \ RemoteDerived :
               id \in DOMAIN dag_file /\ f \in DOMAIN dag_file[id]
               /\ results[id][f] = dag_file[id][f]
          /\ ListedOk =>
               \A f \in CUSTOM_METADATA_FIELDS :
                  (id \in DOMAIN dag_file /\ f \in DOMAIN dag_file[id])
                     => (f \in DOMAIN results[id])

\* C21 witness: a read returned with a custom field overlaid on a listed
\* workflow, while the file names a workflow the remote does not list and
\* holds its own owners and is_paused for the listed one.
C21_Witness ==
  /\ ListedOk /\ kind = "dags" /\ Healthy
  /\ "m1" \in DOMAIN results /\ "m2" \notin Range(remote)
  /\ "m2" \in DOMAIN dag_file
  /\ "owners" \in DOMAIN dag_file["m1"]
  /\ results["m1"].max_task_duration_minutes = 10

\* The identifiers an apply must keep: the manifest's and the protected ones.
Kept == DOMAIN manifest0 \cup ProtectedSet(kind)

\* C22: at every state of an apply for a deleting kind, the state an abort
\* leaves included, every identifier the remote held before the apply that
\* is in the manifest or protected is still there, and no DELETE was issued
\* for one; nothing is rolled back: no identifier is both deleted and
\* patched or posted, an identifier whose DELETE was served stays absent,
\* and the request that raised is the last one.
C22_PartialApplyKeepsManifestAndProtected ==
  (command = "apply" /\ kind \in {"connections", "pools"}) =>
     /\ \A id \in remote0 \cap Kept : Present(id)
     /\ CallIds("DELETE") \cap Kept = {}
     /\ CallIds("DELETE") \cap (CallIds("PATCH") \cup CallIds("POST")) = {}
     /\ \A i \in DOMAIN calls :
          /\ (calls[i].method = "DELETE" /\ Is2xx(calls[i].status))
                => ~Present(calls[i].id)
          /\ (calls[i].method # "GET" /\ RaiseForStatus(calls[i].status)
                /\ ~(calls[i].method = "PATCH" /\ calls[i].status = 404))
                => Fatal(i)

\* C22 witness: an apply aborted in its upsert loop after it had deleted an
\* extra, with a manifest identifier that the remote held still there.
C22_Witness ==
  /\ command = "apply" /\ kind \in {"connections", "pools"}
  /\ pc = "done" /\ outcome = "HTTPError"
  /\ calls[Len(calls)].method \in {"PATCH", "POST"}
  /\ \E i \in DOMAIN calls : calls[i].method = "DELETE" /\ calls[i].status = 204
  /\ remote0 \cap DOMAIN manifest0 # {}
  /\ todo # {}

\* An upper bound on the requests an invocation has yet to issue, plus the
\* steps of main before its first request: the pages up to the end of the
\* remote collection and one more, then one DELETE per identifier of the
\* delete set and one PATCH and one POST per manifest identifier.
LoopsBudget == 3 * Cardinality(Ids)
Rank ==
  CASE pc = "done"         -> 0
    [] pc = "create"       -> 2 * Cardinality(todo) + 1
    [] pc = "upsert"       -> 2 * Cardinality(todo)
    [] pc = "delete"       -> 2 * Cardinality(todo) + Cardinality(to_delete)
    [] pc = "pools"        -> LoopsBudget + 1
    [] pc = "page"         -> LoopsBudget + Len(remote) + PAGE_SIZE - offset
    [] pc = "importErrors" -> LoopsBudget + Len(remote) + PAGE_SIZE + 1
    [] pc = "main"         -> LoopsBudget + Len(remote) + PAGE_SIZE + 2
    [] pc = "args"         -> LoopsBudget + Len(remote) + PAGE_SIZE + 3

\* The listing loop was left by this step.
LeftListingLoop == pc = "page" /\ pc' # "page"

\* C23: every list and every apply ends, in DONE or in a fatal error: an
\* invocation that has not ended can always take a step, and every step
\* lowers Rank, a natural number (the remote answers a request past the end
\* of its collection with an empty page or an error).  The listing loop is
\* left only on an empty page or on an error, never on a short non-empty
\* page, and an apply issues at most one DELETE per identifier of the delete
\* set, one PATCH and one POST per manifest identifier.
C23_Termination ==
  /\ [](Rank >= 0 /\ (pc # "done" => ENABLED Next))
  /\ [][pc # "done" => Rank' < Rank]_vars
  /\ [][LeftListingLoop =>
          \/ calls'[Len(calls')].items = <<>>
          \/ pc' = "done" /\ outcome' \in {"HTTPError", "KeyError"}]_vars
  /\ [](\A id \in Ids :
          /\ CountOf("DELETE", id) <= 1
          /\ CountOf("PATCH", id) <= 1
          /\ CountOf("POST", id) <= 1
          /\ CountOf("DELETE", id) = 1 => id \in Range(polled) \ DOMAIN manifest0
          /\ CountOf("PATCH", id) = 1 => id \in DOMAIN manifest0
          /\ CountOf("POST", id) = 1 => id \in DOMAIN manifest0)

\* C23 witness: an apply ended in DONE after a listing of three pages, the
\* second one short and the third one empty, a DELETE and a PATCH.
C23_Witness ==
  /\ AppliedOk /\ PaginatedKind(kind)
  /\ Len(Gets) = 3
  /\ Len(Gets[2].items) > 0 /\ Len(Gets[2].items) < PAGE_SIZE
  /\ Gets[3].items = <<>>
  /\ CallIds("DELETE") # {} /\ CallIds("PATCH") # {}

====
